---- MODULE Spec2Model ----
(***************************************************************************)
(* Signed message envelope of monitoring_service (messages/message.py) and *)
(* the start-up / shut-down sequence of the pathfinding service console    *)
(* script (pathfinding_service/cli.py).                                    *)
(*                                                                         *)
(* Python values are tagged records of one shape, so that any two of them  *)
(* can be compared: k is the Python type, s a str's characters, n a        *)
(* number, o a dict's items in insertion order.  A str is a sequence of    *)
(* chunks: the JSON structural characters are chunks of their own and a    *)
(* run of ordinary characters ("PathsRequest", "0xA1") is one chunk.       *)
(***************************************************************************)
EXTENDS Integers, Sequences, FiniteSets, TLC

VARIABLES
    m,          \* the Message object the caller holds: [cls, _type, fields]
    registry,   \* the Type Registry: the type tags that have a decoder
    clock,      \* the wall clock read by time.time(), in ticks
    ret,        \* the last call on the envelope layer: what was called, with what, and how it ended
    pc,         \* cli.main: the statement main is at
    registry_address, \* cli.main: the --registry-address parameter / local
    start_block,      \* cli.main: the --start-block parameter / local
    service,    \* cli.main: the local `service` (None or the PathfindingService)
    api,        \* cli.main: the local `api` (None or the ServiceApi)
    pending,    \* cli.main: the exception in flight, "" when none
    calls,      \* cli.main: the calls made on the collaborators, in order
    exit_status \* cli.main: the process exit status, -1 while main runs

msgVars == <<m, registry, clock, ret>>
cliVars == <<pc, registry_address, start_block, service, api, pending, calls, exit_status>>
vars == <<m, registry, clock, ret, pc, registry_address, start_block, service, api, pending, calls, exit_status>>

----------------------------------------------------------------------------
(* Bounds *)

MaxClock == 1
MaxBlock == 1

----------------------------------------------------------------------------
(* Python values *)

None == [k |-> "none", s |-> <<>>, n |-> 0, o |-> <<>>]
Str(chunks) == [k |-> "str", s |-> chunks, n |-> 0, o |-> <<>>]
Num(i) == [k |-> "num", s |-> <<>>, n |-> i, o |-> <<>>]
Dict(items) == [k |-> "dict", s |-> <<>>, n |-> 0, o |-> items]
Item(key, val) == [key |-> key, val |-> val]

IsStr(v) == v.k = "str"
IsDict(v) == v.k = "dict"

\* the str of one chunk
Word(w) == Str(<<w>>)

Keys(d) == {d.o[i].key : i \in 1..Len(d.o)}
Has(d, key) == IsDict(d) /\ key \in Keys(d)
\* d[key]: the value of the last item stored under key
Get(d, key) ==
    LET idx == {i \in 1..Len(d.o) : d.o[i].key = key}
        last == CHOOSE i \in idx : \A j \in idx : j <= i
    IN d.o[last].val
\* d[key] = val on a dict: replaces in place, appends a new key
SetItem(d, key, val) ==
    IF key \in Keys(d)
    THEN Dict([i \in 1..Len(d.o) |-> IF d.o[i].key = key THEN Item(key, val) ELSE d.o[i]])
    ELSE Dict(Append(d.o, Item(key, val)))

----------------------------------------------------------------------------
(* json.dumps / json.loads over chunk sequences *)

QUOTE == "\""
BACKSLASH == "\\"
DigitChars == <<"0", "1", "2", "3", "4", "5", "6", "7", "8", "9">>
IsDigit(c) == \E i \in 1..10 : DigitChars[i] = c
DigitVal(c) == (CHOOSE i \in 1..10 : DigitChars[i] = c) - 1

RECURSIVE Digits(_)
Digits(i) == IF i < 10 THEN <<DigitChars[i + 1]>>
             ELSE Digits(i \div 10) \o <<DigitChars[(i % 10) + 1]>>

RECURSIVE Escape(_)
Escape(chunks) ==
    IF chunks = <<>> THEN <<>>
    ELSE LET c == Head(chunks)
         IN (IF c = QUOTE \/ c = BACKSLASH THEN <<BACKSLASH, c>> ELSE <<c>>)
            \o Escape(Tail(chunks))

RECURSIVE json_dumps(_)
RECURSIVE DumpItems(_)
DumpItems(items) ==
    IF items = <<>> THEN <<>>
    ELSE <<QUOTE>> \o Escape(Head(items).key) \o <<QUOTE, ": ">>
         \o json_dumps(Head(items).val)
         \o (IF Len(items) > 1 THEN <<", ">> ELSE <<>>)
         \o DumpItems(Tail(items))
json_dumps(v) ==
    CASE v.k = "none" -> <<"null">>
      [] v.k = "num" -> Digits(v.n)
      [] v.k = "str" -> <<QUOTE>> \o Escape(v.s) \o <<QUOTE>>
      [] v.k = "dict" -> <<"{">> \o DumpItems(v.o) \o <<"}">>

\* A parse result: ok, the value and the position after it.
Fail == [ok |-> FALSE, v |-> None, i |-> 0]
Parsed(v, i) == [ok |-> TRUE, v |-> v, i |-> i]

\* the backslashes that end at position p, none before position lo
RECURSIVE BackslashRun(_, _, _)
BackslashRun(t, p, lo) ==
    IF p < lo \/ t[p] # BACKSLASH THEN 0 ELSE 1 + BackslashRun(t, p - 1, lo)
\* the character at p is escaped by the backslash before it
Escaped(t, p, lo) == BackslashRun(t, p - 1, lo) % 2 = 1

\* the string literal whose characters start at position i (after the
\* opening quote): it ends at the first quote that is not escaped, and a
\* backslash escapes a quote or a backslash only
ScanString(t, i) ==
    LET closing == {p \in i..Len(t) : t[p] = QUOTE /\ ~Escaped(t, p, i)}
        j == CHOOSE p \in closing : \A q \in closing : p <= q
        marked == [p \in 1..(j - i) |->
                     [c |-> t[i + p - 1],
                      keep |-> ~(t[i + p - 1] = BACKSLASH /\ ~Escaped(t, i + p - 1, i))]]
        kept == SelectSeq(marked, LAMBDA e : e.keep)
    IN IF closing = {} THEN Fail
       ELSE IF \E p \in i..(j - 1) : /\ Escaped(t, p, i)
                                     /\ t[p] # QUOTE /\ t[p] # BACKSLASH
            THEN Fail
       ELSE Parsed(Str([p \in 1..Len(kept) |-> kept[p].c]), j + 1)

RECURSIVE ScanNumber(_, _, _)
ScanNumber(t, i, acc) ==
    IF i <= Len(t) /\ IsDigit(t[i])
    THEN ScanNumber(t, i + 1, 10 * acc + DigitVal(t[i]))
    ELSE Parsed(Num(acc), i)

RECURSIVE ParseValue(_, _)
RECURSIVE ParseItems(_, _, _)
ParseItems(t, i, acc) ==
    IF i > Len(t) \/ t[i] # QUOTE THEN Fail
    ELSE LET key == ScanString(t, i + 1)
         IN IF ~key.ok \/ key.i > Len(t) \/ t[key.i] # ": " THEN Fail
            ELSE LET val == ParseValue(t, key.i + 1)
                 IN IF ~val.ok \/ val.i > Len(t) THEN Fail
                    ELSE LET d == SetItem(Dict(acc), key.v.s, val.v)
                         IN IF t[val.i] = "}" THEN Parsed(d, val.i + 1)
                            ELSE IF t[val.i] = ", " THEN ParseItems(t, val.i + 1, d.o)
                            ELSE Fail
ParseValue(t, i) ==
    IF i > Len(t) THEN Fail
    ELSE IF t[i] = "null" THEN Parsed(None, i + 1)
    ELSE IF t[i] = QUOTE THEN ScanString(t, i + 1)
    ELSE IF IsDigit(t[i]) THEN ScanNumber(t, i, 0)
    ELSE IF t[i] = "{"
         THEN IF i + 1 <= Len(t) /\ t[i + 1] = "}" THEN Parsed(Dict(<<>>), i + 2)
              ELSE ParseItems(t, i + 1, <<>>)
    ELSE Fail

\* json.loads: the whole text must be one value, else JSONDecodeError (ok = FALSE)
json_loads(t) ==
    LET r == ParseValue(t, 1)
    IN IF r.ok /\ r.i = Len(t) + 1 THEN r ELSE Fail

----------------------------------------------------------------------------
(* Collaborators of message.py that are not part of the source at hand:    *)
(* the identity derivation, the envelope schema, the message variants and  *)
(* the deserializer with its Type Registry.                                *)

Secrets == {"S1", "S2"}

\* monitoring_service.utils.privkey_to_addr: the address of a private key
privkey_to_addr(private_key) ==
    IF private_key = "S1" THEN Word("0xA1") ELSE Word("0xA2")

\* The message variants, by type tag, each with the fields of its body.
Variants == {"PathsRequest", "BalanceProof"}
VariantFields(tag) ==
    IF tag = "PathsRequest" THEN <<<<"source">>, <<"target">>>> ELSE <<<<"nonce">>>>

VariantBodies(tag) ==
    IF tag = "PathsRequest"
    THEN {Dict(<<Item(<<"source">>, Word("0xAAAA")), Item(<<"target">>, b)>>) :
             b \in {Word("0xBBBB"), Str(<<"0x", QUOTE, BACKSLASH, "B">>)}}
    ELSE {Dict(<<Item(<<"nonce">>, Num(12))>>)}

\* A variant's constructor: the class fixes its own discriminant.
NewVariantObject(tag, fields) == [cls |-> tag, _type |-> Word(tag), fields |-> fields]

\* A variant's deserialize_from_json(body): the instance rebuilt from the
\* body's fields, a KeyError when one is missing.
deserialize_from_json(tag, body) ==
    LET names == VariantFields(tag)
    IN IF ~IsDict(body) \/ \E i \in 1..Len(names) : names[i] \notin Keys(body)
       THEN [outcome |-> "KeyError", msg |-> [cls |-> "", _type |-> None, fields |-> None]]
       ELSE [outcome |-> "ok",
             msg |-> NewVariantObject(tag,
                        Dict([i \in 1..Len(names) |-> Item(names[i], Get(body, names[i]))]))]

\* json_schema.ENVELOPE_SCHEMA under jsonschema.validate: an object with
\* exactly the keys signature and data, both strings.
jsonschema_validate(instance) ==
    /\ IsDict(instance)
    /\ Keys(instance) = {<<"signature">>, <<"data">>}
    /\ IsStr(Get(instance, <<"signature">>))
    /\ IsStr(Get(instance, <<"data">>))

NoMsg == [cls |-> "", _type |-> None, fields |-> None]
Raised(error, trace) == [outcome |-> error, calls |-> trace, msg |-> NoMsg]

\* monitoring_service.messages.deserializer.deserialize(json_data) with the
\* registry reg: resolve header.type, then run the variant's decoder on body.
deserializer_deserialize(reg, json_data, trace) ==
    IF ~(Has(json_data, <<"header">>) /\ Has(Get(json_data, <<"header">>), <<"type">>)
         /\ Has(json_data, <<"body">>))
    THEN Raised("KeyError", trace)
    ELSE LET tag == Get(Get(json_data, <<"header">>), <<"type">>)
             t1 == Append(trace, "resolve")
         IN IF ~(IsStr(tag) /\ \E v \in reg : Word(v) = tag)
            THEN Raised("UnknownTypeError", t1)
            ELSE LET v == CHOOSE v \in reg : Word(v) = tag
                     d == deserialize_from_json(v, Get(json_data, <<"body">>))
                 IN [outcome |-> d.outcome, calls |-> Append(t1, "decode"), msg |-> d.msg]

----------------------------------------------------------------------------
(* class Message *)

\* Message.__init__
Message_init == [cls |-> "Message", _type |-> None, fields |-> Dict(<<>>)]

\* Message.serialize_data: abstract in Message, the body fields in a variant
serialize_data(self) ==
    IF self.cls = "Message" THEN [outcome |-> "NotImplementedError", v |-> None]
    ELSE [outcome |-> "ok", v |-> self.fields]

\* Message.type (getter)
type_getter(self) == self._type

\* Message.type (setter): the object after the assignment and how it ended
type_setter(self, value) ==
    IF IsStr(self._type)
    THEN [outcome |-> "ok", self |-> [self EXCEPT !._type = value]]
    ELSE [outcome |-> "AssertionError", self |-> self]

\* Message.sign_data
sign_data(private_key, data) == Word("0x1111111111111111111111111111111")

\* verify(signature, payload, claimed identity) of the Signer/Verifier: the
\* signature is one the holder of the identity's secret produces for
\* exactly this payload.
Verifies(signature, payload, identity) ==
    \E secret \in Secrets : /\ privkey_to_addr(secret) = identity
                            /\ sign_data(secret, payload) = signature

\* Fault: assemble_message writing the class name into the header
assemble_message_WrongType(self, now) ==
    IF ~IsStr(type_getter(self)) THEN [outcome |-> "AssertionError", v |-> None]
    ELSE LET body == serialize_data(self)
         IN IF body.outcome # "ok" THEN [outcome |-> body.outcome, v |-> None]
            ELSE [outcome |-> "ok",
                  v |-> Dict(<<Item(<<"header">>,
                                    Dict(<<Item(<<"type">>, Word("Message")),
                                           Item(<<"timestamp">>, Num(now)),
                                           Item(<<"sender">>, None)>>)),
                               Item(<<"body">>, body.v)>>)]

\* Message.assemble_message, time.time() returning now
assemble_message(self, now) ==
    IF ~IsStr(type_getter(self)) THEN [outcome |-> "AssertionError", v |-> None]
    ELSE LET body == serialize_data(self)
         IN IF body.outcome # "ok" THEN [outcome |-> body.outcome, v |-> None]
            ELSE [outcome |-> "ok",
                  v |-> Dict(<<Item(<<"header">>,
                                    Dict(<<Item(<<"type">>, type_getter(self)),
                                           Item(<<"timestamp">>, Num(now)),
                                           Item(<<"sender">>, None)>>)),
                               Item(<<"body">>, body.v)>>)]

\* Fault: serialize_full serializing before it sets the sender
serialize_full_DumpsBeforeSender(self, private_key, now) ==
    LET a == assemble_message(self, now)
    IN IF a.outcome # "ok" THEN [outcome |-> a.outcome, value |-> None, signed |-> None]
       ELSE LET msg_data == Str(json_dumps(a.v))
            IN [outcome |-> "ok",
                value |-> Str(json_dumps(Dict(<<
                             Item(<<"signature">>, sign_data(private_key, msg_data)),
                             Item(<<"data">>, msg_data)>>))),
                signed |-> msg_data]

\* Fault: serialize_full leaving the body out of the serialized object
serialize_full_NoBody(self, private_key, now) ==
    LET a == assemble_message(self, now)
    IN IF a.outcome # "ok" THEN [outcome |-> a.outcome, value |-> None, signed |-> None]
       ELSE LET header == SetItem(Get(a.v, <<"header">>), <<"sender">>,
                                  privkey_to_addr(private_key))
                msg_data == Str(json_dumps(Dict(<<Item(<<"header">>, header),
                                                  Item(<<"body">>, Dict(<<>>))>>)))
            IN [outcome |-> "ok",
                value |-> Str(json_dumps(Dict(<<
                             Item(<<"signature">>, sign_data(private_key, msg_data)),
                             Item(<<"data">>, msg_data)>>))),
                signed |-> msg_data]

\* Message.serialize_full: the envelope string (value), and the string that
\* was handed to sign_data (signed)
serialize_full(self, private_key, now) ==
    LET a == assemble_message(self, now)
    IN IF a.outcome # "ok" THEN [outcome |-> a.outcome, value |-> None, signed |-> None]
       ELSE LET header == SetItem(Get(a.v, <<"header">>), <<"sender">>,
                                  privkey_to_addr(private_key))
                msg_data == Str(json_dumps(SetItem(a.v, <<"header">>, header)))
            IN [outcome |-> "ok",
                value |-> Str(json_dumps(Dict(<<
                             Item(<<"signature">>, sign_data(private_key, msg_data)),
                             Item(<<"data">>, msg_data)>>))),
                signed |-> msg_data]

\* Fault: an unknown type answered with a plain Message
deserialize_inner_DefaultVariant(reg, json_message, trace) ==
    LET json_data == json_loads(Get(json_message, <<"data">>).s)
        t1 == Append(trace, "json.loads(data)")
    IN IF ~json_data.ok THEN Raised("JSONDecodeError", t1) @@ [header |-> None]
       ELSE LET d == deserializer_deserialize(reg, json_data.v, t1)
            IN IF d.outcome = "UnknownTypeError"
               THEN [outcome |-> "ok", calls |-> d.calls, msg |-> Message_init,
                     header |-> Get(json_data.v, <<"header">>)]
               ELSE IF d.outcome # "ok" THEN d @@ [header |-> None]
               ELSE d @@ [header |-> Get(json_data.v, <<"header">>)]

\* Message.deserialize, lines 66-69: parse data, dispatch, attach the header
deserialize_inner(reg, json_message, trace) ==
    LET json_data == json_loads(Get(json_message, <<"data">>).s)
        t1 == Append(trace, "json.loads(data)")
    IN IF ~json_data.ok THEN Raised("JSONDecodeError", t1) @@ [header |-> None]
       ELSE LET d == deserializer_deserialize(reg, json_data.v, t1)
            IN IF d.outcome # "ok" THEN d @@ [header |-> None]
               ELSE d @@ [header |-> Get(json_data.v, <<"header">>)]

\* Fault: deserialize without the schema validation
Message_deserialize_NoValidate(reg, data) ==
    LET json_message == IF IsStr(data) THEN json_loads(data.s) ELSE Parsed(data, 0)
        t0 == IF IsStr(data) THEN <<"json.loads(outer)">> ELSE <<>>
    IN IF ~json_message.ok THEN Raised("JSONDecodeError", t0) @@ [header |-> None]
       ELSE IF ~IsDict(json_message.v) THEN Raised("TypeError", t0) @@ [header |-> None]
       ELSE IF ~Has(json_message.v, <<"data">>) THEN Raised("KeyError", t0) @@ [header |-> None]
       ELSE IF ~IsStr(Get(json_message.v, <<"data">>))
            THEN Raised("TypeError", t0) @@ [header |-> None]
       ELSE deserialize_inner(reg, json_message.v, t0)

\* Message.deserialize: the Message returned (msg, with its header
\* attribute), or the exception raised, and the calls made on the way
Message_deserialize(reg, data) ==
    LET json_message == IF IsStr(data) THEN json_loads(data.s) ELSE Parsed(data, 0)
        t0 == IF IsStr(data) THEN <<"json.loads(outer)">> ELSE <<>>
        t1 == Append(t0, "jsonschema.validate")
    IN IF ~json_message.ok THEN Raised("JSONDecodeError", t0) @@ [header |-> None]
       ELSE IF ~jsonschema_validate(json_message.v)
            THEN Raised("ValidationError", t1) @@ [header |-> None]
       ELSE deserialize_inner(reg, json_message.v, t1)

----------------------------------------------------------------------------
(* The envelope layer as a state machine: its callers construct messages,  *)
(* assign the discriminant, serialize, and hand envelopes to deserialize.  *)

Ret0 == [op |-> "init", self |-> Message_init, arg |-> None, key |-> "", now |-> 0,
         reg |-> {}, outcome |-> "", value |-> None, signed |-> None,
         calls |-> <<>>, msg |-> NoMsg, header |-> None, wire |-> FALSE]

\* the values callers assign to Message.type
TypeValues == {Word("BalanceProof"), Word("Ping"), Num(5)}

\* what arrives from the transport: outer objects with or without each key,
\* well-typed or not, around inner objects of registered and unregistered
\* types, with and without a sender; each as a parsed value and as a string
StubSignature == Word("0x1111111111111111111111111111111")
InnerObject(t, snd, b) ==
    Dict(<<Item(<<"header">>, Dict(<<Item(<<"type">>, t), Item(<<"timestamp">>, Num(1)),
                                     Item(<<"sender">>, snd)>>)),
           Item(<<"body">>, b)>>)
PathsBody == Dict(<<Item(<<"source">>, Word("0xAAAA")), Item(<<"target">>, Word("0xBBBB"))>>)
InnerObjects ==
    {InnerObject(Word("PathsRequest"), Word("0xA1"), PathsBody),
     InnerObject(Word("PathsRequest"), None, PathsBody),
     InnerObject(Word("PathsRequest"), Word("0xA1"), Dict(<<>>)),
     InnerObject(Word("Ping"), Word("0xA1"), PathsBody),
     Dict(<<>>)}
DataValues == {Str(json_dumps(i)) : i \in InnerObjects} \cup {Word("garbage"), Num(7)}
SignatureValues == {StubSignature, Word("0xBAD"), Num(7)}
OuterObjects ==
    {Dict(<<Item(<<"signature">>, sig), Item(<<"data">>, d)>>) :
        sig \in SignatureValues, d \in DataValues}
    \cup {Dict(<<Item(<<"signature">>, sig)>>) : sig \in SignatureValues}
    \cup {Dict(<<Item(<<"data">>, d)>>) : d \in DataValues}
    \cup {Dict(<<>>)}
WireInputs == OuterObjects \cup {Str(json_dumps(o)) : o \in OuterObjects}
                \cup {Str(<<"{", QUOTE>>), Num(7)}

\* a variant's module registers its decoder, at start-up (before the first
\* call on the envelope layer); a tag is registered once
Register(tag) ==
    /\ ret.op = "init"
    /\ tag \notin registry
    /\ registry' = registry \cup {tag}
    /\ UNCHANGED <<m, clock, ret>>
    /\ UNCHANGED cliVars

\* the wall clock advances
Tick ==
    /\ clock < MaxClock
    /\ clock' = clock + 1
    /\ UNCHANGED <<m, registry, ret>> /\ UNCHANGED cliVars

\* Message()
NewMessage ==
    /\ m' = Message_init
    /\ ret' = [Ret0 EXCEPT !.op = "Message", !.self = Message_init]
    /\ UNCHANGED <<registry, clock>> /\ UNCHANGED cliVars

\* a variant's constructor
NewVariant(tag, fields) ==
    /\ m' = NewVariantObject(tag, fields)
    /\ ret' = [Ret0 EXCEPT !.op = tag, !.self = NewVariantObject(tag, fields)]
    /\ UNCHANGED <<registry, clock>> /\ UNCHANGED cliVars

\* m.type = value
SetType(value) ==
    LET r == type_setter(m, value)
    IN /\ m' = r.self
       /\ ret' = [Ret0 EXCEPT !.op = "type.setter", !.self = m, !.arg = value,
                              !.outcome = r.outcome]
       /\ UNCHANGED <<registry, clock>> /\ UNCHANGED cliVars

\* m.assemble_message()
AssembleMessage ==
    LET r == assemble_message(m, clock)
    IN /\ ret' = [Ret0 EXCEPT !.op = "assemble_message", !.self = m, !.now = clock,
                              !.outcome = r.outcome, !.value = r.v]
       /\ UNCHANGED <<m, registry, clock>> /\ UNCHANGED cliVars

\* m.serialize_full(private_key)
SerializeFull(private_key) ==
    LET r == serialize_full(m, private_key, clock)
    IN /\ ret' = [Ret0 EXCEPT !.op = "serialize_full", !.self = m, !.key = private_key,
                              !.now = clock, !.outcome = r.outcome, !.value = r.value,
                              !.signed = r.signed]
       /\ UNCHANGED <<m, registry, clock>> /\ UNCHANGED cliVars

DeserializeCall(data, self, key, now, wire) ==
    LET r == Message_deserialize(registry, data)
    IN /\ ret' = [Ret0 EXCEPT !.op = "deserialize", !.self = self, !.arg = data,
                              !.key = key, !.now = now, !.reg = registry,
                              !.outcome = r.outcome, !.calls = r.calls, !.msg = r.msg,
                              !.header = r.header, !.wire = wire]
       /\ UNCHANGED <<m, registry, clock>> /\ UNCHANGED cliVars

\* Message.deserialize(data) on what the transport delivered
Deserialize(data) == DeserializeCall(data, Message_init, "", 0, FALSE)

\* Message.deserialize on the envelope serialize_full has just returned,
\* as the string or already parsed
DeserializeEnvelope(parsed) ==
    /\ ret.op = "serialize_full" /\ ret.outcome = "ok"
    /\ DeserializeCall(IF parsed THEN json_loads(ret.value.s).v ELSE ret.value,
                       ret.self, ret.key, ret.now, TRUE)

Init == /\ m = Message_init
        /\ registry = {}
        /\ clock = 0
        /\ ret = Ret0
        /\ pc = "start" /\ registry_address = "None" /\ start_block = 0
        /\ service = "None" /\ api = "None" /\ pending = "" /\ calls = <<>>
        /\ exit_status = -1

\* The outbound path and the round trip: messages are constructed, their
\* discriminant assigned, and they are serialized and read back.
Next ==
    \/ \E tag \in Variants : Register(tag)
    \/ Tick
    \/ NewMessage
    \/ \E tag \in Variants : \E fields \in VariantBodies(tag) : NewVariant(tag, fields)
    \/ \E value \in TypeValues : SetType(value)
    \/ AssembleMessage
    \/ \E private_key \in Secrets : SerializeFull(private_key)
    \/ \E parsed \in BOOLEAN : DeserializeEnvelope(parsed)

Spec == Init /\ [][Next]_vars

\* The inbound path on whatever the transport delivers.
NextInbound ==
    \/ \E tag \in Variants : Register(tag)
    \/ \E data \in WireInputs : Deserialize(data)

SpecInbound == Init /\ [][NextInbound]_vars

----------------------------------------------------------------------------
(* pathfinding_service.cli.main, statement by statement.  A collaborator   *)
(* (the keystore, the Ethereum client, the deployment data, the service,   *)
(* the REST api) returns or raises; calls records each call, and each      *)
(* exception where it was raised.                                          *)

\* start_block = max(0, block_number - 100)
RegistryBlockMargin == 100
\* the block the default registry was deployed at
DeployBlocks == {50, RegistryBlockMargin, RegistryBlockMargin + MaxBlock}
\* what a call inside the try statement may raise
Raisable == {"KeyboardInterrupt", "SystemExit", "Exception"}

Max(a, b) == IF a >= b THEN a ELSE b
Count(log, name) == Cardinality({i \in 1..Len(log) : log[i] = name})
RaisedAt(name, exc) == name \o " raised " \o exc

\* sys.exit(1) outside the try statement: the process ends with status 1
SysExit1(log) ==
    /\ calls' = Append(log, "sys.exit(1)")
    /\ exit_status' = 1
    /\ pc' = "exited"

\* main is invoked with its parameters (click has validated them)
Start ==
    /\ pc = "start"
    /\ registry_address' \in {"None", "0xRegistry"}
    /\ start_block' \in 0..MaxBlock
    /\ pc' = "decrypt"
    /\ UNCHANGED <<service, api, pending, calls, exit_status>>
    /\ UNCHANGED msgVars

\* lines 145-156: Account.decrypt on the keystore file
DecryptKeystore ==
    /\ pc = "decrypt"
    /\ \/ /\ calls' = Append(calls, "Account.decrypt")
          /\ pc' = "connect"
          /\ UNCHANGED exit_status
       \/ SysExit1(calls \o <<"Account.decrypt", RaisedAt("Account.decrypt", "ValueError")>>)
    /\ UNCHANGED <<registry_address, start_block, service, api, pending>>
    /\ UNCHANGED msgVars

\* lines 157-167: the Web3 client and web3.net.version
ConnectWeb3 ==
    /\ pc = "connect"
    /\ \/ /\ calls' = Append(calls, "web3.net.version")
          /\ pc' = "registry"
          /\ UNCHANGED exit_status
       \/ SysExit1(calls \o <<"web3.net.version", RaisedAt("web3.net.version", "ConnectionError")>>)
    /\ UNCHANGED <<registry_address, start_block, service, api, pending>>
    /\ UNCHANGED msgVars

\* lines 178-182 with get_default_registry_and_start_block (lines 45-57)
DefaultRegistry ==
    /\ pc = "registry"
    /\ IF registry_address # "None"
       THEN /\ pc' = "construct_service"
            /\ UNCHANGED <<registry_address, start_block, calls, exit_status>>
       ELSE \/ \E block_number \in DeployBlocks :
                 /\ registry_address' = "0xDeployed"
                 /\ start_block' = Max(0, block_number - RegistryBlockMargin)
                 /\ calls' = Append(calls, "get_contracts_deployed")
                 /\ pc' = "construct_service"
                 /\ UNCHANGED exit_status
            \/ /\ SysExit1(calls \o <<"get_contracts_deployed",
                                      RaisedAt("get_contracts_deployed", "ValueError")>>)
               /\ UNCHANGED <<registry_address, start_block>>
    /\ UNCHANGED <<service, api, pending>>
    /\ UNCHANGED msgVars

\* a call inside the try statement raises exc: control goes to the handlers
Raise(name, exc) ==
    /\ calls' = calls \o <<name, RaisedAt(name, exc)>>
    /\ pending' = exc
    /\ pc' = "except"

\* lines 184-198: service = None, api = None, then PathfindingService(...)
ConstructService ==
    /\ pc = "construct_service"
    /\ \/ /\ service' = "PathfindingService"
          /\ calls' = Append(calls, "PathfindingService")
          /\ pc' = "construct_api"
          /\ UNCHANGED pending
       \/ /\ \E exc \in Raisable : Raise("PathfindingService", exc)
          /\ UNCHANGED service
    /\ UNCHANGED <<registry_address, start_block, api, exit_status>>
    /\ UNCHANGED msgVars

\* line 200: api = ServiceApi(service)
ConstructApi ==
    /\ pc = "construct_api"
    /\ \/ /\ api' = "ServiceApi"
          /\ calls' = Append(calls, "ServiceApi")
          /\ pc' = "api_run"
          /\ UNCHANGED pending
       \/ /\ \E exc \in Raisable : Raise("ServiceApi", exc)
          /\ UNCHANGED api
    /\ UNCHANGED <<registry_address, start_block, service, exit_status>>
    /\ UNCHANGED msgVars

\* line 201: api.run(host=host)
ApiRun ==
    /\ pc = "api_run"
    /\ \/ /\ calls' = Append(calls, "api.run")
          /\ pc' = "service_run"
          /\ UNCHANGED pending
       \/ \E exc \in Raisable : Raise("api.run", exc)
    /\ UNCHANGED <<registry_address, start_block, service, api, exit_status>>
    /\ UNCHANGED msgVars

\* line 203: service.run() returns or raises
ServiceRun ==
    /\ pc = "service_run"
    /\ \/ /\ calls' = Append(calls, "service.run")
          /\ pc' = "finally"
          /\ UNCHANGED pending
       \/ \E exc \in Raisable : Raise("service.run", exc)
    /\ UNCHANGED <<registry_address, start_block, service, api, exit_status>>
    /\ UNCHANGED msgVars

\* lines 204-205: except (KeyboardInterrupt, SystemExit): print('Exiting...')
ExceptClause ==
    /\ pc = "except"
    /\ IF pending \in {"KeyboardInterrupt", "SystemExit"}
       THEN pending' = "" /\ calls' = Append(calls, "print")
       ELSE UNCHANGED <<pending, calls>>
    /\ pc' = "finally"
    /\ UNCHANGED <<registry_address, start_block, service, api, exit_status>>
    /\ UNCHANGED msgVars

\* Fault: service.stop() nested under `if api:`
finally_block_ServiceUnderApi(a, svc) ==
    IF a # "None"
    THEN <<"api.stop">> \o (IF svc # "None" THEN <<"service.stop">> ELSE <<>>)
    ELSE <<>>

\* lines 208-211: the calls of the finally block (an object is true)
finally_block(a, svc) ==
    (IF a # "None" THEN <<"api.stop">> ELSE <<>>)
    \o (IF svc # "None" THEN <<"service.stop">> ELSE <<>>)

\* lines 206-213: the finally block, then return 0, or the exception that
\* no handler took leaves main and ends the process with status 1
FinallyClause ==
    /\ pc = "finally"
    /\ calls' = calls \o finally_block(api, service)
    /\ exit_status' = IF pending = "" THEN 0 ELSE 1
    /\ pc' = "exited"
    /\ UNCHANGED <<registry_address, start_block, service, api, pending>>
    /\ UNCHANGED msgVars

NextCli ==
    \/ Start
    \/ DecryptKeystore
    \/ ConnectWeb3
    \/ DefaultRegistry
    \/ ConstructService
    \/ ConstructApi
    \/ ApiRun
    \/ ServiceRun
    \/ ExceptClause
    \/ FinallyClause

SpecCli == Init /\ [][NextCli]_vars

----------------------------------------------------------------------------
(* Properties *)

\* the outer object deserialize works on: data itself, or data parsed
OuterOf(data) == IF IsStr(data) THEN json_loads(data.s) ELSE Parsed(data, 0)
\* the inner object of a schema-valid outer object
InnerOf(outer) == json_loads(Get(outer, <<"data">>).s)
HeaderOf(inner) == Get(inner, <<"header">>)
Returned == ret.op = "deserialize" /\ ret.outcome = "ok"
Serialized == ret.op = "serialize_full" /\ ret.outcome = "ok"

\* C1: round trip.  For a message m of a registered variant (its discriminant
\* is its variant's tag, and the tag has a decoder) and every secret,
\* Message.deserialize(m.serialize_full(secret)) returns a Message whose body
\* fields equal m.serialize_data() and whose attached header has m's type.
C1_RoundTrip ==
    (/\ ret.op = "deserialize" /\ ret.wire
     /\ type_getter(ret.self) = Word(ret.self.cls)
     /\ ret.self.cls \in ret.reg)
    => /\ ret.outcome = "ok"
       /\ serialize_data(ret.msg) = serialize_data(ret.self)
       /\ serialize_data(ret.msg).outcome = "ok"
       /\ IsDict(ret.header)
       /\ Get(ret.header, <<"type">>) = type_getter(ret.self)

\* C1 witness: a PathsRequest whose target holds a quote and a backslash has
\* gone through serialize_full and deserialize, from the string form.
C1_Witness ==
    /\ Returned /\ ret.wire /\ IsStr(ret.arg)
    /\ ret.self.cls = "PathsRequest" /\ ret.key = "S2"
    /\ Get(ret.msg.fields, <<"target">>) = Str(<<"0x", QUOTE, BACKSLASH, "B">>)

\* the outer object lacks signature or data, or its signature is no string
SchemaInvalid(data) ==
    LET outer == OuterOf(data)
    IN /\ outer.ok /\ IsDict(outer.v)
       /\ \/ ~Has(outer.v, <<"signature">>)
          \/ ~Has(outer.v, <<"data">>)
          \/ ~IsStr(Get(outer.v, <<"signature">>))

\* C2: schema rejection comes first.  When the outer object lacks signature,
\* lacks data, or has a signature that is no string, deserialize ends in the
\* validator's error before the inner data is parsed, and neither the type
\* lookup nor a decoder runs; no Message is returned.
C2_SchemaRejectionFirst ==
    (ret.op = "deserialize" /\ SchemaInvalid(ret.arg))
    => /\ ret.outcome = "ValidationError"
       /\ \A i \in 1..Len(ret.calls) :
             ret.calls[i] \notin {"json.loads(data)", "resolve", "decode"}
       /\ ret.calls[Len(ret.calls)] = "jsonschema.validate"
       /\ ret.msg = NoMsg

\* C2 witness: an envelope string whose signature is a number, around the
\* data of a registered type, has been rejected.
C2_Witness ==
    /\ ret.op = "deserialize" /\ SchemaInvalid(ret.arg) /\ IsStr(ret.arg)
    /\ Has(OuterOf(ret.arg).v, <<"signature">>) /\ Has(OuterOf(ret.arg).v, <<"data">>)
    /\ Get(OuterOf(ret.arg).v, <<"data">>) =
          Str(json_dumps(InnerObject(Word("PathsRequest"), Word("0xA1"), PathsBody)))
    /\ "PathsRequest" \in ret.reg
    /\ ret.outcome = "ValidationError"

\* a schema-valid envelope whose header.type is a string that reg does not hold
UnknownType(data, reg) ==
    LET outer == OuterOf(data)
    IN /\ outer.ok /\ jsonschema_validate(outer.v)
       /\ InnerOf(outer.v).ok
       /\ Has(InnerOf(outer.v).v, <<"header">>)
       /\ Has(HeaderOf(InnerOf(outer.v).v), <<"type">>)
       /\ IsStr(Get(HeaderOf(InnerOf(outer.v).v), <<"type">>))
       /\ \A tag \in reg : Word(tag) # Get(HeaderOf(InnerOf(outer.v).v), <<"type">>)

\* C3: unknown type.  A schema-valid envelope whose inner header.type is a
\* string without an entry in the registry makes deserialize fail with
\* UnknownTypeError: no Message (of a default variant or any other) is
\* returned, and the registry is the same after the call as before.
C3_UnknownTypeFails ==
    [][(/\ ret'.op = "deserialize" /\ ret' # ret
        /\ UnknownType(ret'.arg, registry))
       => /\ ret'.outcome = "UnknownTypeError"
          /\ ret'.msg = NoMsg
          /\ registry' = registry]_vars

\* C3 witness: with every variant registered, an envelope of type "Ping" has
\* failed with UnknownTypeError.
C3_Witness ==
    /\ ret.op = "deserialize" /\ ret.reg = Variants /\ registry = Variants
    /\ UnknownType(ret.arg, ret.reg)
    /\ Get(HeaderOf(InnerOf(OuterOf(ret.arg).v).v), <<"type">>) = Word("Ping")
    /\ ret.outcome = "UnknownTypeError"

\* the strings that differ from data in one character
Tampered(data) ==
    {Str([data.s EXCEPT ![p] = "X"]) : p \in {q \in 1..Len(data.s) : data.s[q] # "X"}}

\* C4: tamper sensitivity.  The signature serialize_full puts in an envelope
\* does not verify for the data string with one character changed.
C4_TamperSensitive ==
    Serialized
    => LET envelope == json_loads(ret.value.s).v
       IN \A other \in Tampered(Get(envelope, <<"data">>)) :
             ~Verifies(Get(envelope, <<"signature">>), other, privkey_to_addr(ret.key))

\* the signature of the envelope verifies over its data for header.sender
Authentic(data) ==
    LET outer == OuterOf(data).v
        header == HeaderOf(InnerOf(outer).v)
    IN /\ Has(header, <<"sender">>)
       /\ Verifies(Get(outer, <<"signature">>), Get(outer, <<"data">>),
                   Get(header, <<"sender">>))

\* C5: inbound authentication.  deserialize returns a Message only when the
\* signature verifies over data for header.sender, and an envelope whose
\* signature does not fails with VerificationError.
C5_InboundAuthenticated ==
    /\ Returned => Authentic(ret.arg)
    /\ (/\ ret.op = "deserialize"
        /\ OuterOf(ret.arg).ok /\ jsonschema_validate(OuterOf(ret.arg).v)
        /\ InnerOf(OuterOf(ret.arg).v).ok
        /\ Has(InnerOf(OuterOf(ret.arg).v).v, <<"header">>)
        /\ ~Authentic(ret.arg))
       => ret.outcome = "VerificationError"

\* C6: outbound assembly order.  In the envelope serialize_full returns,
\* data is the very string handed to sign_data, and that string is the
\* serialization of {header, body} with header.sender already set to the
\* address of the secret.
C6_SignedIsData ==
    Serialized
    => LET envelope == json_loads(ret.value.s)
           inner == json_loads(ret.signed.s)
       IN /\ envelope.ok /\ IsStr(ret.signed)
          /\ Get(envelope.v, <<"data">>) = ret.signed
          /\ ret.signed =
                Str(json_dumps(Dict(<<
                    Item(<<"header">>,
                         Dict(<<Item(<<"type">>, type_getter(ret.self)),
                                Item(<<"timestamp">>, Num(ret.now)),
                                Item(<<"sender">>, privkey_to_addr(ret.key))>>)),
                    Item(<<"body">>, serialize_data(ret.self).v)>>)))
          /\ inner.ok
          /\ Get(HeaderOf(inner.v), <<"sender">>) = privkey_to_addr(ret.key)
          /\ Get(HeaderOf(inner.v), <<"sender">>) # None

\* C6 witness: a BalanceProof has been serialized with the second secret
\* after the clock advanced.
C6_Witness ==
    /\ Serialized /\ ret.key = "S2" /\ ret.now > 0
    /\ ret.self.cls = "BalanceProof"
    /\ Get(json_loads(ret.value.s).v, <<"data">>) = ret.signed

\* C7: header / discriminant agreement.  The header assemble_message builds
\* (alone, and inside serialize_full) carries the Message's own type, and a
\* Message returned by deserialize is of the variant its attached header
\* names, with that type as its discriminant.
C7_HeaderAgrees ==
    /\ (ret.op = "assemble_message" /\ ret.outcome = "ok")
       => Get(HeaderOf(ret.value), <<"type">>) = type_getter(ret.self)
    /\ Serialized
       => Get(HeaderOf(json_loads(ret.signed.s).v), <<"type">>) = type_getter(ret.self)
    /\ Returned
       => /\ Get(ret.header, <<"type">>) = type_getter(ret.msg)
          /\ Get(ret.header, <<"type">>) = Word(ret.msg.cls)

\* C7 witness: deserialize has returned a BalanceProof from an envelope whose
\* header says "BalanceProof".
C7_Witness ==
    /\ Returned /\ ret.msg.cls = "BalanceProof"
    /\ Get(ret.header, <<"type">>) = Word("BalanceProof")

\* C8: the type setter asserts that the assigned value is a string.  An
\* assignment fails with AssertionError exactly when the value is no string;
\* a failed assignment leaves the discriminant as it was, and an assigned
\* string is what the getter returns.
C8_SetterAssertsValue ==
    ret.op = "type.setter"
    => /\ (ret.outcome = "AssertionError") <=> ~IsStr(ret.arg)
       /\ ret.outcome = "AssertionError" => type_getter(m) = type_getter(ret.self)
       /\ IsStr(ret.arg) => type_getter(m) = ret.arg

\* C9: the discriminant is immutable once set.  Once type holds a string, no
\* assignment through the setter changes what the getter returns.
C9_TypeImmutable ==
    [][((\E value \in TypeValues : SetType(value)) /\ IsStr(type_getter(m)))
       => type_getter(m') = type_getter(m)]_vars

\* what the log of calls says
Called(name) == Count(calls, name) > 0
Constructed(name) ==
    Called(name) /\ \A exc \in Raisable : ~Called(RaisedAt(name, exc))
EarlyFailure ==
    \/ Called(RaisedAt("Account.decrypt", "ValueError"))
    \/ Called(RaisedAt("web3.net.version", "ConnectionError"))

====
